---- MODULE Spec2Model ----
(***************************************************************************)
(* Model of pybullet_sim/hardware/robotiq2F85.py: the Gripper base class   *)
(* and its two subclasses Robotiq2F85 and WSG50.                           *)
(*                                                                         *)
(* One instance is followed from allocation on.  Floats are fixed-point    *)
(* numbers with Scale units per 1.0; math.sin and math.asin are computed   *)
(* numerically on that grid.  The physics engine is the environment: a     *)
(* simulation step either lets joint 0 track its motor target (fingers     *)
(* unobstructed) or reports any angle of Angles.                           *)
(***************************************************************************)
EXTENDS Integers, FiniteSets, Sequences, TLC

(***************************************************************************)
(* Bounds of the model.                                                    *)
(***************************************************************************)
\* largest max_steps passed to movej directly
MaxSteps == 3
\* travel of joint 0 per simulation step when it tracks its motor target
StepRad == 4500

(***************************************************************************)
(* Fixed-point arithmetic.                                                 *)
(***************************************************************************)
Scale == 10 ^ 4

Abs(x) == IF x < 0 THEN -x ELSE x

\* n / d rounded to the nearest integer (d # 0)
RDiv(n, d) ==
  LET q == ((2 * Abs(n)) + Abs(d)) \div (2 * Abs(d))
  IN  IF (n < 0) = (d < 0) THEN q ELSE -q

FMul(a, b) == RDiv(a * b, Scale)
FDiv(a, b) == RDiv(a * Scale, b)

\* math.sin, by its Taylor polynomial of degree 9 (|x| <= pi/2 + 1)
Sin(x) ==
  LET x2 == FMul(x, x)
      t4 == Scale - RDiv(x2, 72)
      t3 == Scale - RDiv(FMul(x2, t4), 42)
      t2 == Scale - RDiv(FMul(x2, t3), 20)
      t1 == Scale - RDiv(FMul(x2, t2), 6)
  IN  FMul(x, t1)

HalfPi == 15708

\* bisection of Sin on [lo, hi], monotone there
AsinBisect[y \in Int, lo \in Int, hi \in Int] ==
  IF hi - lo <= 1
    THEN (IF Abs(Sin(lo) - y) <= Abs(Sin(hi) - y) THEN lo ELSE hi)
    ELSE LET mid == (lo + hi) \div 2
         IN  IF Sin(mid) < y THEN AsinBisect[y, mid, hi]
                             ELSE AsinBisect[y, lo, mid]

\* math.asin raises ValueError outside [-1, 1]
AsinDefined(y) == (y >= -Scale) /\ (y <= Scale)
Asin(y) == AsinBisect[y, -HalfPi, HalfPi]

(***************************************************************************)
(* Class attributes and literals of the source.                            *)
(***************************************************************************)
open_relative_position == 0
\* close_gripper commanding the open position
closed_relative_position_as_open == open_relative_position
closed_relative_position == Scale

open_position == 0
closed_position == 850

KnuckleAngle == 7150
LinkLength == 1143
PadOffset == 100

ConvergeTol == 100
GraspTol == 1000

DefaultMaxForce == 100
DefaultMaxSteps == 200

Classes == {"Gripper", "Robotiq2F85", "WSG50"}
JointIds == 0 .. 9
NoCmd == [pos |-> 0, force |-> -1]

\* inputs of the calls
Targets == {0, 5000, 10000}
Forces == {40, 100}
StepBudgets == 0 .. MaxSteps

(***************************************************************************)
(* State.                                                                  *)
(***************************************************************************)
VARIABLES
  cls,                      \* class of the instance
  time_imported,            \* module run as __main__ (line 148 binds time)
  unobstructed,             \* the fingers meet no obstacle in this run
  life,                     \* "new", "ok" (__init__ returned), "failed"
  attrs,                    \* instance attributes bound so far
  simulate_real_time,
  target_relative_position,
  joint0,                   \* angle of joint 0 in the engine
  motor,                    \* motor target of each joint in the engine
  constraints,              \* gear constraints created in the engine
  base_pose,                \* base pose was reset to a given pose
  pc,                       \* "idle", or "loop" inside movej
  frame,                    \* op and arguments of the current or last call
  polls, sets, steps, sleeps,  \* per call: polls that returned, calls of
                            \* _set_joint_targets, stepSimulation, time.sleep
  last_polled,              \* value of the last poll that returned
  logged,                   \* the call emitted its debug message
  ret,                      \* "pending", "raised", "None", "True", "False"
  err,                      \* exception of the call, or "none"
  commanded,                \* position the caller commanded last
  last_kind,                \* how the last command ended
  stepped_since             \* simulation stepped since the last command ended

vars == <<cls, time_imported, unobstructed, life, attrs, simulate_real_time,
          target_relative_position, joint0, motor, constraints, base_pose,
          pc, frame, polls, sets, steps, sleeps, last_polled, logged, ret,
          err, commanded, last_kind, stepped_since>>

(***************************************************************************)
(* Robotiq2F85: the two position mappings.                                 *)
(***************************************************************************)
\* abs_position - closed_position / (open_position - closed_position):
\* the division binds tighter than the subtraction
joint_angle_to_relative_position(angle) ==
  LET abs_position == FMul(Sin(KnuckleAngle - angle), LinkLength) + PadOffset
  IN  abs_position - FDiv(closed_position, open_position - closed_position)

RelativeToAsinArg(relative_position) ==
  LET abs_position ==
        closed_position + FMul(open_position - closed_position, relative_position)
  IN  FDiv(abs_position - PadOffset, LinkLength)

relative_position_to_joint_angle(relative_position) ==
  KnuckleAngle - Asin(RelativeToAsinArg(relative_position))

\* angles the engine may report for joint 0 when the fingers are obstructed
Angles == {0, 4000, 7100, 7200, relative_position_to_joint_angle(Scale)}

(***************************************************************************)
(* The physics engine.                                                     *)
(***************************************************************************)
Toward(a, tgt) ==
  IF Abs(tgt - a) <= StepRad THEN tgt
  ELSE IF tgt > a THEN a + StepRad ELSE a - StepRad

\* p.stepSimulation(): the angles joint 0 may have afterwards
StepSimulation(a, m) ==
  IF unobstructed
    THEN {IF m[0] = NoCmd THEN a ELSE Toward(a, m[0].pos)}
    ELSE Angles

(***************************************************************************)
(* Methods, as functions of the instance state.                            *)
(***************************************************************************)
left_finger_dict == (2 :> -1) @@ (4 :> 1) @@ (0 :> 1)
right_finger_dict == (7 :> -1) @@ (9 :> 1) @@ (5 :> 1)

MotorControl(m, dirs, pos, force) ==
  [j \in JointIds |->
     IF j \in DOMAIN dirs THEN [pos |-> pos * dirs[j], force |-> force]
     ELSE m[j]]

\* self._set_joint_targets(t, f) on class c: [err, motor]
SetJointTargets(c, at, m, t, f) ==
  IF c = "Robotiq2F85" THEN
    IF ~AsinDefined(RelativeToAsinArg(t))
      THEN [err |-> "ValueError", motor |-> m]
    ELSE IF "gripper_id" \notin at
      THEN [err |-> "AttributeError", motor |-> m]
    ELSE LET open_angle == relative_position_to_joint_angle(t)
         IN  [err |-> "none",
              motor |-> MotorControl(MotorControl(m, left_finger_dict, open_angle, f),
                                     right_finger_dict, open_angle, f)]
  ELSE IF c = "WSG50" THEN
    IF {"left_pincher_joint_id", "right_pincher_joint_id", "gripper_id"} \subseteq at
      THEN [err |-> "none",
            motor |-> MotorControl(m, (4 :> 1) @@ (6 :> 1), t, f)]
      ELSE [err |-> "AttributeError", motor |-> m]
  ELSE [err |-> "NotImplementedError", motor |-> m]

\* get_relative_position answering on every class, the base class included
GetRelativePositionOnAnyClass(c, at, angle) ==
  [err |-> "none", val |-> joint_angle_to_relative_position(angle)]

\* self.get_relative_position() on class c: [err, val]
GetRelativePosition(c, at, angle) ==
  IF c = "Robotiq2F85" THEN
    IF "gripper_id" \in at
      THEN [err |-> "none", val |-> joint_angle_to_relative_position(angle)]
      ELSE [err |-> "AttributeError", val |-> 0]
  ELSE [err |-> "NotImplementedError", val |-> 0]

\* the convergence test with the tolerance of the grasp proxy
ConvergedWithin01(target, current) == Abs(target - current) < 1000

\* abs(target_relative_position - current_relative_position) < 1e-2
Converged(target, current) == Abs(target - current) < ConvergeTol

\* the grasp proxy with the comparison turned round
GraspProxyBelow(target, current) == Abs(target - current) < 1000

\* abs(self.target_relative_position - self.get_relative_position()) > 0.1
GraspProxy(target, current) == Abs(target - current) > GraspTol

\* lines 23-25 of Gripper.reset, s the outcome of _set_joint_targets
ResetTail(s, at, posed) ==
  [err |-> IF s.err # "none" THEN s.err
           ELSE IF posed /\ "gripper_id" \notin at THEN "AttributeError"
           ELSE "none",
   attrs |-> at,
   target |-> open_relative_position,
   motor |-> s.motor,
   posed |-> (s.err = "none") /\ posed /\ ("gripper_id" \in at)]

\* Gripper.reset(pose): [err, attrs, target, motor, posed]
GripperReset(c, at, m, posed) ==
  ResetTail(SetJointTargets(c, at \cup {"target_relative_position"}, m,
                            open_relative_position, DefaultMaxForce),
            at \cup {"target_relative_position"}, posed)

home_joint_positions == <<0, -111, -2064, 2051, 0, 0, 0, 0>>

\* lines 134-136 of WSG50.reset: every joint back to its home position
HomeMotors(m) ==
  [j \in JointIds |->
     IF j + 1 \in DOMAIN home_joint_positions
       THEN [pos |-> home_joint_positions[j + 1], force |-> 0]
       ELSE m[j]]

\* c.reset(pose), WSG50 overriding it: [err, attrs, target, motor, posed],
\* and the angle of joint 0 afterwards
ResetOf(c, at, m, tgt, posed) ==
  IF c = "WSG50" /\ "gripper_id" \notin at THEN
    [err |-> "AttributeError", attrs |-> at, target |-> tgt, motor |-> m,
     posed |-> FALSE]
  ELSE IF c = "WSG50" THEN GripperReset(c, at, HomeMotors(m), posed)
  ELSE GripperReset(c, at, m, posed)

ResetJoint0(c, at, a) ==
  IF c = "WSG50" /\ "gripper_id" \in at THEN home_joint_positions[1] ELSE a

\* positional arguments the class passes to Gripper.__init__ after self
InitArgs(c) == IF c = "WSG50" THEN 3 ELSE IF c = "Robotiq2F85" THEN 1 ELSE 2

\* Gripper.__init__(gripper_id, simulate_realtime): [err, attrs, target, motor]
GripperInit(c, at, m, nargs) ==
  IF nargs > 2 THEN
    [err |-> "TypeError", attrs |-> at, target |-> 0, motor |-> m, posed |-> FALSE]
  ELSE
    GripperReset(c, at \cup {"gripper_id", "simulate_real_time",
                             "target_relative_position"}, m, FALSE)

\* Robotiq2F85._create_constraints: parent joint, child joint, gear ratio
constraint_dict == {<<5, 7, -1>>, <<0, 2, -1>>}
CreateConstraints ==
  {[parent |-> c[1], child |-> c[2], gearRatio |-> -c[3], maxForce |-> 100]
     : c \in constraint_dict}

(***************************************************************************)
(* Initial state: an allocated instance whose __init__ has not run.        *)
(***************************************************************************)
NoFrame == [op |-> "none", target |-> 0, max_force |-> 0, max_steps |-> 0, i |-> 0]

Init ==
  /\ cls \in Classes
  /\ time_imported \in BOOLEAN
  /\ unobstructed \in BOOLEAN
  /\ life = "new"
  /\ attrs = {}
  /\ simulate_real_time = FALSE
  /\ target_relative_position = 0
  /\ joint0 = 0
  /\ motor = [j \in JointIds |-> NoCmd]
  /\ constraints = {}
  /\ base_pose = FALSE
  /\ pc = "idle"
  /\ frame = NoFrame
  /\ polls = 0 /\ sets = 0 /\ steps = 0 /\ sleeps = 0
  /\ last_polled = 0
  /\ logged = FALSE
  /\ ret = "none"
  /\ err = "none"
  /\ commanded = -1
  /\ last_kind = "none"
  /\ stepped_since = FALSE

\* A method can be called once __init__ has run on the instance.  When
\* __init__ raised, the instance keeps the attributes bound before the raise
\* (life = "failed"); the properties about constructed grippers read
\* life = "ok".
Callable == pc = "idle" /\ life # "new"

\* start of a call that is not movej: counters and results of the last call go
EnterCall(op) ==
  /\ frame' = [NoFrame EXCEPT !.op = op]
  /\ polls' = 0 /\ sets' = 0 /\ steps' = 0 /\ sleeps' = 0
  /\ logged' = FALSE

(***************************************************************************)
(* cls(...): the constructor of the instance's class.                      *)
(***************************************************************************)
Construct(srt) ==
  /\ pc = "idle" /\ life = "new"
  /\ cls = "Gripper" \/ srt
  /\ \E g \in {GripperInit(cls,
                           IF cls = "WSG50" THEN {"home_joint_positions"} ELSE {},
                           motor, InitArgs(cls))} :
       /\ attrs' = IF g.err = "none" /\ cls = "WSG50"
                     THEN g.attrs \cup {"left_pincher_joint_id",
                                        "right_pincher_joint_id"}
                     ELSE g.attrs
       /\ constraints' = IF g.err = "none" /\ cls = "Robotiq2F85"
                           THEN CreateConstraints ELSE constraints
       /\ life' = IF g.err = "none" THEN "ok" ELSE "failed"
       /\ simulate_real_time' = (("simulate_real_time" \in g.attrs) /\ srt)
       /\ target_relative_position' = g.target
       /\ motor' = g.motor
       /\ err' = g.err
       /\ ret' = IF g.err = "none" THEN "None" ELSE "raised"
  /\ EnterCall("init")
  /\ commanded' = 0
  /\ last_kind' = "init"
  /\ stepped_since' = FALSE
  /\ UNCHANGED <<cls, time_imported, unobstructed, joint0, base_pose, pc,
                 last_polled>>

(***************************************************************************)
(* reset(pose)                                                             *)
(***************************************************************************)
Reset(posed) ==
  /\ Callable
  /\ \E r \in {ResetOf(cls, attrs, motor, target_relative_position, posed)} :
       /\ attrs' = r.attrs
       /\ target_relative_position' = r.target
       /\ motor' = r.motor
       /\ base_pose' = (base_pose \/ r.posed)
       /\ err' = r.err
       /\ ret' = IF r.err = "none" THEN "None" ELSE "raised"
  /\ joint0' = ResetJoint0(cls, attrs, joint0)
  /\ EnterCall("reset")
  /\ commanded' = 0
  /\ last_kind' = "reset"
  /\ stepped_since' = FALSE
  /\ UNCHANGED <<cls, time_imported, unobstructed, life, simulate_real_time,
                 constraints, pc, last_polled>>

(***************************************************************************)
(* movej(target, max_force, max_steps), entered directly or through        *)
(* open_gripper and close_gripper.                                         *)
(***************************************************************************)
MovejCall(op, t, f, n) ==
  /\ Callable
  /\ target_relative_position' = t
  /\ attrs' = attrs \cup {"target_relative_position"}
  /\ frame' = [op |-> op, target |-> t, max_force |-> f, max_steps |-> n, i |-> 0]
  /\ polls' = 0 /\ sets' = 0 /\ steps' = 0 /\ sleeps' = 0
  /\ logged' = FALSE
  /\ ret' = "pending"
  /\ err' = "none"
  /\ pc' = "loop"
  /\ last_kind' = "pending"
  /\ stepped_since' = FALSE
  /\ UNCHANGED <<cls, time_imported, unobstructed, life, simulate_real_time,
                 joint0, motor, constraints, base_pose, last_polled>>

Movej(t, f, n) ==
  /\ MovejCall("movej", t, f, n)
  /\ commanded' = t

OpenGripper(f) ==
  /\ MovejCall("open_gripper", open_relative_position, f, DefaultMaxSteps)
  /\ commanded' = 0

CloseGripper(f) ==
  /\ MovejCall("close_gripper", closed_relative_position, f, DefaultMaxSteps)
  /\ commanded' = Scale

\* the call ends with exception e
Raise(e) ==
  /\ err' = e
  /\ ret' = "raised"
  /\ pc' = "idle"
  /\ last_kind' = "raised"

\* one pass of the loop body, lines 39-45
MovejIterate ==
  /\ pc = "loop" /\ frame.i < frame.max_steps
  /\ \E g \in {GetRelativePosition(cls, attrs, joint0)} :
       IF g.err # "none" THEN
         /\ Raise(g.err)
         /\ UNCHANGED <<joint0, motor, frame, polls, sets, steps, sleeps,
                        last_polled>>
       ELSE IF Converged(frame.target, g.val) THEN
         /\ polls' = polls + 1 /\ last_polled' = g.val
         /\ ret' = "True" /\ pc' = "idle" /\ last_kind' = "converged"
         /\ UNCHANGED <<joint0, motor, frame, sets, steps, sleeps, err>>
       ELSE
         \E s \in {SetJointTargets(cls, attrs, motor, frame.target,
                                   frame.max_force)} :
           IF s.err # "none" THEN
             /\ polls' = polls + 1 /\ last_polled' = g.val
             /\ Raise(s.err)
             /\ UNCHANGED <<joint0, motor, frame, sets, steps, sleeps>>
           ELSE
             /\ polls' = polls + 1 /\ last_polled' = g.val
             /\ sets' = sets + 1 /\ motor' = s.motor
             /\ steps' = steps + 1
             /\ joint0' \in StepSimulation(joint0, s.motor)
             /\ IF "simulate_real_time" \notin attrs THEN
                  Raise("AttributeError") /\ UNCHANGED <<frame, sleeps>>
                ELSE IF simulate_real_time /\ ~time_imported THEN
                  Raise("NameError") /\ UNCHANGED <<frame, sleeps>>
                ELSE
                  /\ sleeps' = IF simulate_real_time THEN sleeps + 1 ELSE sleeps
                  /\ frame' = [frame EXCEPT !.i = @ + 1]
                  /\ UNCHANGED <<pc, ret, err, last_kind>>
  /\ UNCHANGED <<cls, time_imported, unobstructed, life, attrs,
                 simulate_real_time, target_relative_position, constraints,
                 base_pose, logged, commanded, stepped_since>>

\* range(max_steps) is exhausted: line 46, then the implicit return None
MovejTimeout ==
  /\ pc = "loop" /\ frame.i >= frame.max_steps
  /\ logged' = TRUE
  /\ ret' = "None"
  /\ pc' = "idle"
  /\ last_kind' = "timeout"
  /\ UNCHANGED <<cls, time_imported, unobstructed, life, attrs,
                 simulate_real_time, target_relative_position, joint0, motor,
                 constraints, base_pose, frame, polls, sets, steps, sleeps,
                 last_polled, err, commanded, stepped_since>>

(***************************************************************************)
(* is_object_grasped()                                                     *)
(***************************************************************************)
IsObjectGrasped ==
  /\ Callable
  /\ \E g \in {GetRelativePosition(cls, attrs, joint0)} :
       IF "target_relative_position" \notin attrs THEN
         err' = "AttributeError" /\ ret' = "raised" /\ UNCHANGED last_polled
       ELSE IF g.err # "none" THEN
         err' = g.err /\ ret' = "raised" /\ UNCHANGED last_polled
       ELSE
         /\ err' = "none"
         /\ last_polled' = g.val
         /\ ret' = IF GraspProxy(target_relative_position, g.val)
                     THEN "True" ELSE "False"
  /\ EnterCall("is_object_grasped")
  /\ UNCHANGED <<cls, time_imported, unobstructed, life, attrs,
                 simulate_real_time, target_relative_position, joint0, motor,
                 constraints, base_pose, pc, commanded, last_kind,
                 stepped_since>>

(***************************************************************************)
(* The simulation is stepped by the rest of the program (robot.movep)      *)
(* between two calls on the gripper.                                       *)
(***************************************************************************)
ExternalStep ==
  /\ Callable
  /\ joint0' \in StepSimulation(joint0, motor)
  /\ stepped_since' = TRUE
  /\ UNCHANGED <<cls, time_imported, unobstructed, life, attrs,
                 simulate_real_time, target_relative_position, motor,
                 constraints, base_pose, pc, frame, polls, sets, steps, sleeps,
                 last_polled, logged, ret, err, commanded, last_kind>>

Next ==
  \/ \E srt \in BOOLEAN : Construct(srt)
  \/ \E posed \in BOOLEAN : Reset(posed)
  \/ \E t \in Targets, f \in Forces, n \in StepBudgets : Movej(t, f, n)
  \/ \E f \in Forces : OpenGripper(f)
  \/ \E f \in Forces : CloseGripper(f)
  \/ MovejIterate
  \/ MovejTimeout
  \/ IsObjectGrasped
  \/ ExternalStep

Spec == Init /\ [][Next]_vars

(***************************************************************************)
(* Properties.                                                             *)
(***************************************************************************)
IsMove == frame.op \in {"movej", "open_gripper", "close_gripper"}
Constructed == life = "ok"

\* C1: both gripper models, Robotiq2F85 and WSG50, can be constructed and
\* driven through reset, open_gripper, close_gripper, movej and
\* is_object_grasped without any call ending in an exception.
C1_InterchangeableNoError ==
  (cls \in {"Robotiq2F85", "WSG50"}) => (err = "none")

\* C2: a movej none of whose polls found the position within 1e-2 of the
\* target has logged its debug message, raised nothing, returned None and
\* left target_relative_position at the commanded target.
C2_TimeoutLoggedAndSilent ==
  (Constructed /\ pc = "idle" /\ IsMove /\ last_kind # "converged")
    => /\ logged
       /\ err = "none"
       /\ ret = "None"
       /\ target_relative_position = frame.target

\* C3: a call of movej makes at most max_steps polls, max_steps calls of
\* _set_joint_targets and max_steps simulation steps, and then returns.
C3_BoundedThenReturns ==
  (Constructed /\ IsMove)
    => /\ polls <= frame.max_steps
       /\ sets <= frame.max_steps
       /\ steps <= frame.max_steps
       /\ (pc = "idle" => (err = "none" /\ ret \in {"True", "None"}))

\* C4: on a constructed gripper target_relative_position is the position of
\* the most recent command (0.0 after construction, reset or open_gripper,
\* 1.0 after close_gripper, the argument after movej), during the move and
\* after it however it ended, and is_object_grasped leaves it alone.
C4_TargetIsLastCommand ==
  Constructed
    => /\ "target_relative_position" \in attrs
       /\ target_relative_position = commanded

\* C4 witness: close_gripper timed out, is_object_grasped was called after
\* it, and the target is still 1.0.
C4_Witness ==
  /\ Constructed
  /\ frame.op = "is_object_grasped"
  /\ last_kind = "timeout"
  /\ commanded = 10000
  /\ target_relative_position = 10000

\* C5: in movej with simulate_real_time every simulation step is followed
\* by one sleep, without it no sleep occurs, and the sleep never ends the
\* move with an exception.
C5_SleepAfterEachStep ==
  (Constructed /\ IsMove)
    => /\ err # "NameError"
       /\ sleeps = (IF simulate_real_time THEN steps ELSE 0)

\* C6: on an instance of the base class Gripper the constructor, reset,
\* movej with max_steps >= 1 and is_object_grasped end in
\* NotImplementedError, and no motor command or simulation step is issued
\* by any call.
C6_AbstractBaseRaises ==
  (cls = "Gripper")
    => /\ sets = 0
       /\ steps = 0
       /\ \A j \in JointIds : motor[j] = NoCmd
       /\ (/\ pc = "idle"
           /\ frame.op \in {"init", "reset", "is_object_grasped", "movej",
                            "open_gripper", "close_gripper"}
           /\ (IsMove => frame.max_steps >= 1))
          => (err = "NotImplementedError" /\ ret = "raised")

\* C6 witness: movej with max_steps >= 1 on a base-class instance ended in
\* NotImplementedError.
C6_Witness ==
  /\ cls = "Gripper"
  /\ pc = "idle"
  /\ frame.op = "movej"
  /\ frame.max_steps >= 1
  /\ err = "NotImplementedError"
  /\ steps = 0

\* C7: for Robotiq2F85, when joint 0 sits at the angle commanded for the
\* relative position r, the position read back is r up to 1e-2: the two
\* mappings are inverse to each other.
C7_MappingsInverse ==
  (/\ cls = "Robotiq2F85"
   /\ Constructed
   /\ motor[0] # NoCmd
   /\ motor[0].pos = relative_position_to_joint_angle(target_relative_position)
   /\ joint0 = motor[0].pos)
    => Abs(joint_angle_to_relative_position(joint0) - target_relative_position)
         < 100

\* C8: for Robotiq2F85 with unobstructed fingers, a move with enough steps
\* for joint 0 to reach its motor target returns True, for every target
\* of [0, 1], open_gripper and close_gripper included.
C8_UnobstructedMoveConverges ==
  (/\ cls = "Robotiq2F85"
   /\ Constructed
   /\ unobstructed
   /\ time_imported
   /\ pc = "idle"
   /\ IsMove
   /\ frame.max_steps >= MaxSteps)
    => ret = "True"

\* C9: movej returns True exactly at the first poll that reads a position
\* strictly within 1e-2 of the target, issuing no motor command and no
\* simulation step at that poll; every earlier poll is followed by one
\* _set_joint_targets with the call's target and force and one simulation
\* step; the position after the last step of a move that times out is not
\* polled.
C9_TrueAtFirstConvergedPoll ==
  (cls = "Robotiq2F85" /\ Constructed /\ IsMove)
    => /\ sets = steps
       /\ polls <= frame.max_steps
       /\ (sets >= 1 =>
             motor[0] = [pos |-> relative_position_to_joint_angle(frame.target),
                         force |-> frame.max_force])
       /\ IF ret = "True"
            THEN /\ pc = "idle"
                 /\ polls = steps + 1
                 /\ Abs(frame.target - last_polled) < 100
            ELSE /\ polls = steps
                 /\ (polls >= 1 => Abs(frame.target - last_polled) >= 100)

\* C9 witness: a move returned True after at least one simulation step.
C9_Witness ==
  /\ cls = "Robotiq2F85"
  /\ Constructed
  /\ IsMove
  /\ ret = "True"
  /\ steps >= 1

GraspAnswered ==
  Constructed /\ frame.op = "is_object_grasped" /\ err = "none"

\* C10 as stated: is_object_grasped returns True exactly when the target and
\* the position read differ by more than 0.1, returns False right after a
\* movej that returned True, and returns True only after a move that timed
\* out or after the simulation was stepped since the last command.
C10_GraspOnlyAfterTimeoutOrStep ==
  GraspAnswered
    => /\ (ret = "True") = (Abs(target_relative_position - last_polled) > 1000)
       /\ (last_kind = "converged" /\ ~stepped_since => ret = "False")
       /\ (ret = "True" => (last_kind = "timeout" \/ stepped_since))

\* C10 amended: is_object_grasped returns True exactly when the target and
\* the position read differ by more than 0.1, returns False right after a
\* movej that returned True, and returns True only when the last command was
\* a move that timed out or raised, a construction or a reset, or after the
\* simulation was stepped since the last command.
C10_GraspNotAfterConvergedMove ==
  GraspAnswered
    => /\ (ret = "True") = (Abs(target_relative_position - last_polled) > 1000)
       /\ (last_kind = "converged" /\ ~stepped_since => ret = "False")
       /\ (ret = "True" =>
             (last_kind \in {"timeout", "raised", "init", "reset"}
              \/ stepped_since))

\* C10 witness: is_object_grasped answered False right after a move that
\* returned True, the simulation not stepped in between.
C10_Witness ==
  /\ GraspAnswered
  /\ last_kind = "converged"
  /\ ~stepped_since
  /\ ret = "False"

====
